---- MODULE Spec2Model ----
(***************************************************************************)
(* Model of the bench-worker-fly benchmark tooling: the benchmark drivers  *)
(* (doFetch, resultToCsvRow, the round loop) and the analysis script       *)
(* (parseCSV, calculateStats, calculateRequiredSampleSize, welchTTest,     *)
(* analyzeData).                                                           *)
(*                                                                         *)
(* Text is a sequence of one-character strings.  A JavaScript value is a   *)
(* record [k, v]: k is "num", "nan", "inf", "null" or "undef", and for a   *)
(* number v is the value in fixed point, Scale units to one.  The sign of  *)
(* zero is not modelled.                                                   *)
(*                                                                         *)
(* Specifications: Spec is a run of the analysis script on the file of a   *)
(* finished driver run; SpecIngest is its run on a file of arbitrary       *)
(* lines; SpecCsv writes a batch of records and reads it back; SpecDriver  *)
(* is a driver run and SpecDriverFair one in which every request ends;     *)
(* SpecReport is the analysis of groups of whole-number latencies and      *)
(* SpecScenario that of the README's reference data; SpecWelch and         *)
(* SpecPlanner are direct calls of welchTTest and                          *)
(* calculateRequiredSampleSize; SpecStats calls the copies of              *)
(* calculateStats and SpecRounded the same function in binary floating     *)
(* point of SignificandBits bits.                                          *)
(***************************************************************************)
EXTENDS Integers, Sequences, FiniteSets, TLC

\* ------------------------------------------------------------------ bounds
MaxRows == 3
MaxBatch == 2
MaxGroup == 3
MaxStd == 12
MaxDiff == 4
MaxSamples == 2
MaxLines == 2
MaxReportRows == 4
MaxValues == 4
SignificandBits == 8

\* ------------------------------------------------------- JavaScript values
Scale == 10000

Num(v) == [k |-> "num", v |-> v]
JsInt(n) == Num(n * Scale)
NaN == [k |-> "nan", v |-> 0]
PosInf == [k |-> "inf", v |-> 1]
NegInf == [k |-> "inf", v |-> -1]
Null == [k |-> "null", v |-> 0]
Undefined == [k |-> "undef", v |-> 0]

IsNullish(x) == x.k \in {"null", "undef"}
IsFinite(x) == x.k = "num"

\* ToNumber: null is 0, undefined is NaN.
ToNumber(x) ==
  IF x.k = "null" THEN Num(0)
  ELSE IF x.k = "undef" THEN NaN
  ELSE x

Abs(n) == IF n < 0 THEN -n ELSE n
Sgn(n) == IF n < 0 THEN -1 ELSE IF n > 0 THEN 1 ELSE 0

\* floor(a * b / Scale) for a, b >= 0, split so that no product overflows.
FMul(a, b) ==
  LET a1 == a \div Scale
      a0 == a % Scale
      b1 == b \div Scale
      b0 == b % Scale
  IN a1 * b1 * Scale + a1 * b0 + a0 * b1 + (a0 * b0) \div Scale

\* One step of decimal long division: the largest k in 0..9 with k * b <= 10 * r,
\* computed without forming 10 * r or k * b.
DigitFits(k, r, b) ==
  LET d == r - k * (b \div 10)
  IN d >= 0 /\ (d >= 9 \/ 10 * d >= k * (b % 10))

QuotDigit(r, b) == CHOOSE k \in 0..9 : DigitFits(k, r, b) /\ ~DigitFits(k + 1, r, b)

\* floor(a * Scale / b) for a >= 0, b > 0, by long division (Scale = 10^4).
RECURSIVE LongDiv(_, _, _, _)
LongDiv(q, r, b, steps) ==
  IF steps = 0 THEN q
  ELSE LET k == QuotDigit(r, b)
       IN LongDiv(q * 10 + k, 10 * (r - k * (b \div 10)) - k * (b % 10), b, steps - 1)

FDiv(a, b) == LongDiv(a \div b, a % b, b, 4)

\* r * r <= x * Scale, decided without forming either product.
SquareFits(r, x) ==
  \/ FMul(r, r) < x
  \/ FMul(r, r) = x /\ ((r % Scale) * (r % Scale)) % Scale = 0

\* The largest r with r * r <= x * Scale, found by bisection.
RECURSIVE Bisect(_, _, _)
Bisect(x, lo, hi) ==
  IF lo >= hi THEN lo
  ELSE IF SquareFits((lo + hi + 1) \div 2, x)
    THEN Bisect(x, (lo + hi + 1) \div 2, hi)
    ELSE Bisect(x, lo, ((lo + hi + 1) \div 2) - 1)

FSqrt(x) == Bisect(x, 0, IF x <= Scale THEN Scale ELSE IF x < 4600000 THEN x ELSE 4600000)

JNeg(x) ==
  LET a == ToNumber(x)
  IN IF a.k = "nan" THEN NaN ELSE [k |-> a.k, v |-> -a.v]

JAdd(x, y) ==
  LET a == ToNumber(x)
      b == ToNumber(y)
  IN IF a.k = "nan" \/ b.k = "nan" THEN NaN
     ELSE IF a.k = "inf" /\ b.k = "inf" THEN (IF a.v = b.v THEN a ELSE NaN)
     ELSE IF a.k = "inf" THEN a
     ELSE IF b.k = "inf" THEN b
     ELSE Num(a.v + b.v)

JSub(x, y) == JAdd(x, JNeg(y))

JMul(x, y) ==
  LET a == ToNumber(x)
      b == ToNumber(y)
  IN IF a.k = "nan" \/ b.k = "nan" THEN NaN
     ELSE IF a.k = "inf" \/ b.k = "inf"
       THEN (IF Sgn(a.v) * Sgn(b.v) = 0 THEN NaN
             ELSE [k |-> "inf", v |-> Sgn(a.v) * Sgn(b.v)])
     ELSE Num(Sgn(a.v) * Sgn(b.v) * FMul(Abs(a.v), Abs(b.v)))

JDiv(x, y) ==
  LET a == ToNumber(x)
      b == ToNumber(y)
  IN IF a.k = "nan" \/ b.k = "nan" THEN NaN
     ELSE IF a.k = "inf" /\ b.k = "inf" THEN NaN
     ELSE IF a.k = "inf"
       THEN [k |-> "inf", v |-> a.v * (IF b.v < 0 THEN -1 ELSE 1)]
     ELSE IF b.k = "inf" THEN Num(0)
     ELSE IF b.v = 0
       THEN (IF a.v = 0 THEN NaN ELSE [k |-> "inf", v |-> Sgn(a.v)])
     ELSE Num(Sgn(a.v) * Sgn(b.v) * FDiv(Abs(a.v), Abs(b.v)))

\* Math.pow(x, 2)
JPow2(x) == JMul(x, x)

\* Math.sqrt
JSqrt(x) ==
  LET a == ToNumber(x)
  IN IF a.k = "nan" THEN NaN
     ELSE IF a.v < 0 THEN NaN
     ELSE IF a.k = "inf" THEN PosInf
     ELSE Num(FSqrt(a.v))

\* The argument itself, where line 126 and line 141 call Math.abs.
JAbsOmitted(x) == ToNumber(x)

\* Math.abs
JAbs(x) ==
  LET a == ToNumber(x)
  IN IF a.k = "nan" THEN NaN ELSE [k |-> a.k, v |-> Abs(a.v)]

\* Math.floor, where line 104 calls Math.ceil.
JCeilAsFloor(x) ==
  LET a == ToNumber(x)
  IN IF a.k = "num" THEN Num((a.v \div Scale) * Scale) ELSE a

\* Math.ceil
JCeil(x) ==
  LET a == ToNumber(x)
  IN IF a.k # "num" THEN a
     ELSE Num(((a.v + Scale - 1) \div Scale) * Scale)

\* x < y and x > y: false when either side is NaN.
JLt(x, y) ==
  LET a == ToNumber(x)
      b == ToNumber(y)
  IN IF a.k = "nan" \/ b.k = "nan" THEN FALSE
     ELSE IF a.k = "inf" /\ b.k = "inf" THEN a.v < b.v
     ELSE IF a.k = "inf" THEN a.v < 0
     ELSE IF b.k = "inf" THEN b.v > 0
     ELSE a.v < b.v

JGt(x, y) == JLt(y, x)

\* ------------------------------------------------------------------- text
Digits == <<"0", "1", "2", "3", "4", "5", "6", "7", "8", "9">>
IsDigit(c) == \E i \in 1..10 : Digits[i] = c
DigitVal(c) == (CHOOSE i \in 1..10 : Digits[i] = c) - 1
IsSpace(c) == c \in {" ", "\n"}

RECURSIVE IntToStr(_)
IntToStr(n) ==
  IF n < 10 THEN <<Digits[n + 1]>>
  ELSE IntToStr(n \div 10) \o <<Digits[(n % 10) + 1]>>

\* The decimal digits of the fraction f / Scale, trailing zeros dropped.
RECURSIVE FracToStr(_, _)
FracToStr(f, unit) ==
  IF f = 0 \/ unit = 0 THEN <<>>
  ELSE <<Digits[(f \div unit) + 1]>> \o FracToStr(f % unit, unit \div 10)

\* String(x) for a number.
NumToStr(x) ==
  IF x.k = "nan" THEN <<"N", "a", "N">>
  ELSE IF x.k = "inf" THEN (IF x.v < 0 THEN <<"-">> ELSE <<>>) \o <<"I", "n", "f">>
  ELSE LET m == Abs(x.v)
           whole == IntToStr(m \div Scale)
           frac == FracToStr(m % Scale, Scale \div 10)
       IN (IF x.v < 0 THEN <<"-">> ELSE <<>>) \o whole
          \o (IF frac = <<>> THEN <<>> ELSE <<".">> \o frac)

BoolToStr(b) == IF b THEN <<"t", "r", "u", "e">> ELSE <<"f", "a", "l", "s", "e">>

\* Array.prototype.join
RECURSIVE Join(_, _)
Join(parts, sep) ==
  IF Len(parts) = 0 THEN <<>>
  ELSE IF Len(parts) = 1 THEN parts[1]
  ELSE parts[1] \o <<sep>> \o Join(Tail(parts), sep)

\* String.prototype.split on a one-character separator.
RECURSIVE Split(_, _)
Split(s, sep) ==
  IF \E i \in 1..Len(s) : s[i] = sep
    THEN LET i == CHOOSE i \in 1..Len(s) : s[i] = sep /\ \A j \in 1..(i - 1) : s[j] # sep
         IN <<SubSeq(s, 1, i - 1)>> \o Split(SubSeq(s, i + 1, Len(s)), sep)
    ELSE <<s>>

\* String.prototype.trim
RECURSIVE TrimStart(_)
TrimStart(s) ==
  IF s # <<>> /\ IsSpace(s[1]) THEN TrimStart(Tail(s)) ELSE s

RECURSIVE TrimEnd(_)
TrimEnd(s) ==
  IF s # <<>> /\ IsSpace(s[Len(s)]) THEN TrimEnd(SubSeq(s, 1, Len(s) - 1)) ELSE s

Trim(s) == TrimEnd(TrimStart(s))

\* The value of the leading run of decimal digits of s.
RECURSIVE DigitRun(_, _)
DigitRun(s, acc) ==
  IF s # <<>> /\ IsDigit(s[1]) THEN DigitRun(Tail(s), acc * 10 + DigitVal(s[1])) ELSE acc

\* parseInt(s, 10): leading white space, an optional sign, then digits; NaN
\* when no digit follows.
ParseInt(s) ==
  LET t == TrimStart(s)
      neg == t # <<>> /\ t[1] = "-"
      u == IF t # <<>> /\ t[1] \in {"-", "+"} THEN Tail(t) ELSE t
  IN IF u = <<>> \/ ~IsDigit(u[1]) THEN NaN
     ELSE Num((IF neg THEN -1 ELSE 1) * DigitRun(u, 0) * Scale)


\* A text field that is missing (an out-of-range array element).
UndefText == <<"undefined">>

\* ------------------------------------------------- descriptive statistics
\* values.reduce((a, b) => a + b, 0).  Addition is exact on these numbers, so
\* the total of the left fold is the total of the two halves.
RECURSIVE Sum(_)
Sum(values) ==
  IF values = <<>> THEN Num(0)
  ELSE IF Len(values) = 1 THEN JAdd(Num(0), values[1])
  ELSE JAdd(Sum(SubSeq(values, 1, Len(values) \div 2)),
            Sum(SubSeq(values, (Len(values) \div 2) + 1, Len(values))))

\* values.reduce((sum, val) => sum + Math.pow(val - mean, 2), 0)
RECURSIVE SumSq(_, _)
SumSq(values, mean) ==
  IF values = <<>> THEN Num(0)
  ELSE IF Len(values) = 1 THEN JAdd(Num(0), JPow2(JSub(values[1], mean)))
  ELSE JAdd(SumSq(SubSeq(values, 1, Len(values) \div 2), mean),
            SumSq(SubSeq(values, (Len(values) \div 2) + 1, Len(values)), mean))

\* The order of the characters of a numeral: "-", ".", then the digits.
CharCode(c) == IF IsDigit(c) THEN DigitVal(c) + 2 ELSE IF c = "." THEN 1 ELSE 0

\* s sorts before t as a string.
LexLess(s, t) ==
  \E k \in 1..Len(t) :
    /\ \A m \in 1..(k - 1) : m <= Len(s) /\ s[m] = t[m]
    /\ k > Len(s) \/ CharCode(s[k]) < CharCode(t[k])

\* The place of values[i] after values.sort() without a comparator, which
\* orders the elements as strings.
PlaceLexical(values, i) ==
  1 + Cardinality({j \in 1..Len(values) :
                     \/ LexLess(NumToStr(values[j]), NumToStr(values[i]))
                     \/ j < i /\ ~LexLess(NumToStr(values[i]), NumToStr(values[j]))})

\* The place of values[i] after values.sort((a, b) => b - a).
PlaceDescending(values, i) ==
  1 + Cardinality({j \in 1..Len(values) :
                     \/ JGt(JSub(values[j], values[i]), Num(0))
                     \/ j < i /\ ~JGt(JSub(values[i], values[j]), Num(0))})

\* The place of values[i] after the sort: behind every element it compares
\* greater than, and behind every earlier element that does not compare greater
\* than it (the sort is stable).
Place(values, i) ==
  1 + Cardinality({j \in 1..Len(values) :
                     \/ JGt(JSub(values[i], values[j]), Num(0))
                     \/ j < i /\ ~JGt(JSub(values[j], values[i]), Num(0))})

\* [...values].sort((a, b) => a - b)
Placed(values, place) ==
  SubSeq([k \in 1..Len(values) |-> values[CHOOSE i \in 1..Len(values) : place[i] = k]],
         1, Len(values))

SortNum(values) ==
  Placed(values, SubSeq([i \in 1..Len(values) |-> Place(values, i)], 1, Len(values)))

\* The summary of no values were line 64 to divide the empty sum by n = 0.
EmptyStatsDivided ==
  [n |-> 0, mean |-> JDiv(Num(0), JsInt(0)), std |-> Num(0), median |-> Num(0),
   min |-> Num(0), max |-> Num(0), q1 |-> Num(0), q3 |-> Num(0), iqr |-> Num(0),
   cv |-> Num(0), se |-> Num(0), ci95Lower |-> Num(0), ci95Upper |-> Num(0)]

EmptyStats ==
  [n |-> 0, mean |-> Num(0), std |-> Num(0), median |-> Num(0), min |-> Num(0),
   max |-> Num(0), q1 |-> Num(0), q3 |-> Num(0), iqr |-> Num(0), cv |-> Num(0),
   se |-> Num(0), ci95Lower |-> Num(0), ci95Upper |-> Num(0)]

\* calculateStats with the variance of line 65 divided by n - 1 whatever n is,
\* as the pilot drivers' copies divide it.
calculateStatsUnguarded(values) ==
  LET n == Len(values)
      sorted == SortNum(values)
      mean == JDiv(Sum(values), JsInt(n))
      variance == JDiv(SumSq(values, mean), JsInt(n - 1))
      std == JSqrt(variance)
      median == IF n % 2 = 0
                  THEN JDiv(JAdd(sorted[n \div 2], sorted[(n \div 2) + 1]), JsInt(2))
                  ELSE sorted[(n \div 2) + 1]
      q1 == sorted[(n \div 4) + 1]
      q3 == sorted[((3 * n) \div 4) + 1]
      cv == IF JGt(mean, Num(0)) THEN JMul(JDiv(std, mean), JsInt(100)) ELSE Num(0)
      se == JDiv(std, JSqrt(JsInt(n)))
  IN IF n = 0 THEN EmptyStats
     ELSE [n |-> n, mean |-> mean, std |-> std, median |-> median,
           min |-> sorted[1], max |-> sorted[n], q1 |-> q1, q3 |-> q3,
           iqr |-> JSub(q3, q1), cv |-> cv, se |-> se,
           ci95Lower |-> JSub(mean, JMul(Num(19600), se)),
           ci95Upper |-> JAdd(mean, JMul(Num(19600), se))]

\* calculateStats with the two quartile indices exchanged.
calculateStatsQuartilesSwapped(values) ==
  LET n == Len(values)
      sorted == SortNum(values)
      mean == JDiv(Sum(values), JsInt(n))
      variance == IF n > 1 THEN JDiv(SumSq(values, mean), JsInt(n - 1)) ELSE Num(0)
      std == JSqrt(variance)
      median == IF n % 2 = 0
                  THEN JDiv(JAdd(sorted[n \div 2], sorted[(n \div 2) + 1]), JsInt(2))
                  ELSE sorted[(n \div 2) + 1]
      q1Index == (3 * n) \div 4
      q3Index == n \div 4
      q1 == sorted[q1Index + 1]
      q3 == sorted[q3Index + 1]
      iqr == JSub(q3, q1)
      cv == IF JGt(mean, Num(0)) THEN JMul(JDiv(std, mean), JsInt(100)) ELSE Num(0)
      se == JDiv(std, JSqrt(JsInt(n)))
      ci95Lower == JSub(mean, JMul(Num(19600), se))
      ci95Upper == JAdd(mean, JMul(Num(19600), se))
  IN IF n = 0 THEN EmptyStats
     ELSE [n |-> n, mean |-> mean, std |-> std, median |-> median,
           min |-> sorted[1], max |-> sorted[n], q1 |-> q1, q3 |-> q3, iqr |-> iqr,
           cv |-> cv, se |-> se, ci95Lower |-> ci95Lower, ci95Upper |-> ci95Upper]

calculateStats(values) ==
  LET n == Len(values)
      sorted == SortNum(values)
      mean == JDiv(Sum(values), JsInt(n))
      variance == IF n > 1 THEN JDiv(SumSq(values, mean), JsInt(n - 1)) ELSE Num(0)
      std == JSqrt(variance)
      median == IF n % 2 = 0
                  THEN JDiv(JAdd(sorted[n \div 2], sorted[(n \div 2) + 1]), JsInt(2))
                  ELSE sorted[(n \div 2) + 1]
      q1Index == n \div 4
      q3Index == (3 * n) \div 4
      q1 == sorted[q1Index + 1]
      q3 == sorted[q3Index + 1]
      iqr == JSub(q3, q1)
      cv == IF JGt(mean, Num(0)) THEN JMul(JDiv(std, mean), JsInt(100)) ELSE Num(0)
      se == JDiv(std, JSqrt(JsInt(n)))
      ci95Lower == JSub(mean, JMul(Num(19600), se))
      ci95Upper == JAdd(mean, JMul(Num(19600), se))
  IN IF n = 0 THEN EmptyStats
     ELSE [n |-> n, mean |-> mean, std |-> std, median |-> median,
           min |-> sorted[1], max |-> sorted[n], q1 |-> q1, q3 |-> q3, iqr |-> iqr,
           cv |-> cv, se |-> se, ci95Lower |-> ci95Lower, ci95Upper |-> ci95Upper]

\* ------------------------------------------------------ sample-size planner
\* The planner with the squared difference as a factor, where line 103 divides
\* by it.
calculateRequiredSampleSizeTimesDiff(std, minDetectableDiff) ==
  JCeil(JMul(JMul(JMul(JsInt(2), JPow2(JAdd(Num(19600), Num(8400)))), JPow2(std)),
             JPow2(minDetectableDiff)))

\* The planner with a floor of one sample under its result.
calculateRequiredSampleSizeAtLeastOne(std, minDetectableDiff) ==
  LET n == JCeil(JDiv(JMul(JMul(JsInt(2), JPow2(JAdd(Num(19600), Num(8400)))), JPow2(std)),
                      JPow2(minDetectableDiff)))
  IN IF n = JsInt(0) THEN JsInt(1) ELSE n

calculateRequiredSampleSize(std, minDetectableDiff) ==
  LET zAlpha == Num(19600)
      zBeta == Num(8400)
      n == JDiv(JMul(JMul(JsInt(2), JPow2(JAdd(zAlpha, zBeta))), JPow2(std)),
                JPow2(minDetectableDiff))
  IN JCeil(n)

\* The default of minDetectableDiff in the pilot drivers.
DefaultDiff == 50

\* The copy in the pilot drivers: minDetectableDiff defaults to 50.
calculateRequiredSampleSizePilot(std, minDetectableDiff) ==
  calculateRequiredSampleSize(std,
    IF minDetectableDiff = Undefined THEN JsInt(50) ELSE minDetectableDiff)

\* ------------------------------------------------------ significance tester
\* exp(-f) for 0 <= f < Scale, by its Taylor series.
RECURSIVE ExpSeries(_, _, _)
ExpSeries(f, term, i) ==
  IF term = 0 \/ i > 12 THEN 0
  ELSE LET next == FMul(term, f) \div i
       IN (IF i % 2 = 1 THEN -next ELSE next) + ExpSeries(f, next, i + 1)

RECURSIVE ExpNeg(_)
ExpNeg(w) ==
  IF w >= 10 * Scale THEN 0
  ELSE IF w >= Scale THEN FMul(3679, ExpNeg(w - Scale))
  ELSE Scale + ExpSeries(w, Scale, 1)

\* Math.exp
JExp(x) ==
  LET a == ToNumber(x)
  IN IF a.k = "nan" THEN NaN
     ELSE IF a.k = "inf" THEN (IF a.v < 0 THEN Num(0) ELSE PosInf)
     ELSE IF a.v <= 0 THEN Num(ExpNeg(-a.v))
     ELSE JDiv(JsInt(1), Num(ExpNeg(a.v)))

normalCDF(x0) ==
  LET a1 == Num(2548)
      a2 == Num(-2845)
      a3 == Num(14214)
      a4 == Num(-14532)
      a5 == Num(10614)
      p == Num(3276)
      sign == IF JLt(x0, Num(0)) THEN JsInt(-1) ELSE JsInt(1)
      x == JDiv(JAbs(x0), JSqrt(JsInt(2)))
      t == JDiv(JsInt(1), JAdd(JsInt(1), JMul(p, x)))
      poly == JMul(JAdd(JMul(JAdd(JMul(JAdd(JMul(JAdd(JMul(a5, t), a4), t), a3), t), a2), t), a1), t)
      y == JSub(JsInt(1), JMul(poly, JExp(JNeg(JMul(x, x)))))
  IN JMul(Num(5000), JAdd(JsInt(1), JMul(sign, y)))

welchTTest(group1, group2) ==
  LET n1 == JsInt(Len(group1))
      n2 == JsInt(Len(group2))
      mean1 == JDiv(Sum(group1), n1)
      mean2 == JDiv(Sum(group2), n2)
      var1 == JDiv(SumSq(group1, mean1), JSub(n1, JsInt(1)))
      var2 == JDiv(SumSq(group2, mean2), JSub(n2, JsInt(1)))
      se == JSqrt(JAdd(JDiv(var1, n1), JDiv(var2, n2)))
      t == JDiv(JSub(mean1, mean2), se)
      df == JDiv(JPow2(JAdd(JDiv(var1, n1), JDiv(var2, n2))),
                 JAdd(JDiv(JPow2(JDiv(var1, n1)), JSub(n1, JsInt(1))),
                      JDiv(JPow2(JDiv(var2, n2)), JSub(n2, JsInt(1)))))
      pValue == JMul(JsInt(2), JSub(JsInt(1), normalCDF(JAbs(t))))
  IN [t |-> t, df |-> df, pValue |-> pValue]

\* --------------------------------------------------------- sample records
FareSide == <<"F">>
PayAI == <<"P">>
Coinbase == <<"C">>

\* new Date().toISOString(): a text without separator characters.
Timestamp == <<"T">>

CSV_HEADER ==
  Join(<<<<"t">>, <<"f">>, <<"n">>, <<"s">>, <<"a">>, <<"r">>, <<"o">>, <<"e">>>>, ",")
    \o <<"\n">>

\* An element of the array handed to join: a number prints as String(number),
\* null and undefined print as the empty text.
FieldToStr(x) == IF IsNullish(x) THEN <<>> ELSE NumToStr(x)

resultToCsvRow(result) ==
  Join(<<result.timestamp,
         result.facilitator,
         result.network,
         FieldToStr(result.sampleNum),
         FieldToStr(result.facilitationMs),
         FieldToStr(result.roundtripMs),
         BoolToStr(result.success),
         result.error>>, ",") \o <<"\n">>

\* The file after writeFileSync(header) and one appendFileSync per record.
RECURSIVE WriteRows(_)
WriteRows(rows) ==
  IF rows = <<>> THEN <<>>
  ELSE resultToCsvRow(rows[1]) \o WriteRows(Tail(rows))

\* values[k], zero-based: undefined past the end of the array.
At(values, k) == IF k + 1 <= Len(values) THEN values[k + 1] ELSE UndefText

\* A text is truthy unless it is undefined or empty.
Truthy(text) == text # UndefText /\ text # <<>>

ParseLine(line) ==
  LET values == Split(line, ",")
  IN [timestamp |-> At(values, 0),
      facilitator |-> At(values, 1),
      network |-> At(values, 2),
      sampleNum |-> IF At(values, 3) = UndefText THEN NaN ELSE ParseInt(At(values, 3)),
      facilitationMs |-> IF Truthy(At(values, 4)) THEN ParseInt(At(values, 4)) ELSE Null,
      roundtripMs |-> IF Truthy(At(values, 5)) THEN ParseInt(At(values, 5)) ELSE Null,
      success |-> At(values, 6) = <<"t", "r", "u", "e">>,
      error |-> IF Truthy(At(values, 7)) THEN At(values, 7) ELSE <<>>]

parseCSV(content) ==
  LET lines == Split(Trim(content), "\n")
  IN [i \in 1..(Len(lines) - 1) |-> ParseLine(lines[i + 1])]

\* ------------------------------------------------------------ the drivers
BaseEndpoints ==
  <<[facilitator |-> FareSide, network |-> <<"b">>],
    [facilitator |-> PayAI, network |-> <<"b">>],
    [facilitator |-> Coinbase, network |-> <<"b">>]>>

SolanaEndpoints ==
  <<[facilitator |-> FareSide, network |-> <<"s">>],
    [facilitator |-> PayAI, network |-> <<"s">>]>>

\* What the payment request does: the body parses (elapsed present or not),
\* or fetchWithPayment / response.json() throws.
JsonOutcome(elapsed, roundtrip) ==
  [kind |-> "json", elapsed |-> elapsed, roundtrip |-> roundtrip, message |-> <<>>]
ThrowOutcome(message) ==
  [kind |-> "throw", elapsed |-> Undefined, roundtrip |-> Undefined, message |-> message]

\* errorMsg.replace(/,/g, ";")
ReplaceCommas(text) == [i \in 1..Len(text) |-> IF text[i] = "," THEN ";" ELSE text[i]]

\* "elapsed field missing in response"
MissingNote == <<"m">>

FailureRecord(endpoint, sampleNum, outcome) ==
  [timestamp |-> Timestamp,
   facilitator |-> endpoint.facilitator,
   network |-> endpoint.network,
   sampleNum |-> JsInt(sampleNum),
   facilitationMs |-> Null,
   roundtripMs |-> Null,
   success |-> FALSE,
   error |-> ReplaceCommas(outcome.message)]

\* doFetch of the Base pilot and Base main drivers.
doFetchBase(endpoint, sampleNum, outcome) ==
  IF outcome.kind = "json"
    THEN [timestamp |-> Timestamp,
          facilitator |-> endpoint.facilitator,
          network |-> endpoint.network,
          sampleNum |-> JsInt(sampleNum),
          facilitationMs |-> outcome.elapsed,
          roundtripMs |-> outcome.roundtrip,
          success |-> TRUE,
          error |-> <<>>]
    ELSE FailureRecord(endpoint, sampleNum, outcome)

\* doFetch of the Solana pilot and Solana main drivers.
doFetchSolana(endpoint, sampleNum, outcome) ==
  IF outcome.kind = "json"
    THEN LET facilitation == IF IsNullish(outcome.elapsed) THEN Null ELSE outcome.elapsed
         IN [timestamp |-> Timestamp,
             facilitator |-> endpoint.facilitator,
             network |-> endpoint.network,
             sampleNum |-> JsInt(sampleNum),
             facilitationMs |-> facilitation,
             roundtripMs |-> outcome.roundtrip,
             success |-> TRUE,
             error |-> IF facilitation = Null THEN MissingNote ELSE <<>>]
    ELSE FailureRecord(endpoint, sampleNum, outcome)

\* ------------------------------------------------------ the analysis script
VARIABLES batch, file, apc, data, successfulData, facilitators, facilitatorStats,
          described, comparisons, pooledStats, sampleSizes, rankings, overlaps

\* A direct call of one of the pure functions: the function, its arguments, the
\* position of the call and what it returned.
VARIABLES fn, args, fpc, ret

\* A driver run: which driver, its MODE, the position in runPilot/runBenchmark,
\* the loop counters, the doFetch promises of the round, and what was collected.
VARIABLES driver, mode, dpc, sample, seqIndex, promises, roundResults, results,
          outputFile

analysisVars == <<batch, file, apc, data, successfulData, facilitators, facilitatorStats,
                  described, comparisons, pooledStats, sampleSizes, rankings, overlaps>>
fnVars == <<fn, args, fpc, ret>>
driverVars == <<driver, mode, dpc, sample, seqIndex, promises, roundResults, results,
                outputFile>>

vars == <<analysisVars, fnVars, driverVars>>

Range(s) == {s[i] : i \in 1..Len(s)}

\* [...new Set(names)]: the distinct names in order of first appearance.
Unique(names) ==
  LET first == SelectSeq([i \in 1..Len(names) |-> i],
                         LAMBDA i : \A j \in 1..(i - 1) : names[j] # names[i])
  IN [k \in 1..Len(first) |-> names[first[k]]]

NoStats == [f \in {} |-> EmptyStats]

\* ParseStep with the facilitators listed from every record, failed ones too.
ParseStepAllRecords ==
  /\ apc = "start"
  /\ data' = parseCSV(file)
  /\ successfulData' = SelectSeq(parseCSV(file), LAMBDA r : r.success)
  /\ facilitators' = Unique([i \in 1..Len(parseCSV(file)) |-> parseCSV(file)[i].facilitator])
  /\ apc' = "parsed"
  /\ UNCHANGED <<fnVars, driverVars>>
  /\ UNCHANGED <<batch, file, facilitatorStats, described, comparisons, pooledStats,
                 sampleSizes, rankings, overlaps>>

\* Lines 155-163: parse, filter the successful records, list the facilitators.
ParseStep ==
  /\ apc = "start"
  /\ LET parsed == parseCSV(file)
         successful == SelectSeq(parsed, LAMBDA r : r.success)
     IN /\ data' = parsed
        /\ successfulData' = successful
        /\ facilitators' = Unique([i \in 1..Len(successful) |-> successful[i].facilitator])
  /\ apc' = "parsed"
  /\ UNCHANGED <<fnVars, driverVars>>
  /\ UNCHANGED <<batch, file, facilitatorStats, described, comparisons, pooledStats,
                 sampleSizes, rankings, overlaps>>

\* Lines 172-183: the entry of one facilitator in facilitatorStats.
StatsFor(facilitator) ==
  LET facilitatorData == SelectSeq(successfulData, LAMBDA r : r.facilitator = facilitator)
      facilitationTimes == [i \in 1..Len(facilitatorData) |-> facilitatorData[i].facilitationMs]
      roundtripTimes == [i \in 1..Len(facilitatorData) |-> facilitatorData[i].roundtripMs]
  IN [facilitation |-> calculateStats(facilitationTimes),
      roundtrip |-> calculateStats(roundtripTimes),
      data |-> facilitationTimes]

\* x.toFixed(..) throws a TypeError when x is null or undefined.
ToFixedThrows(x) == IsNullish(x)

\* Lines 185-197: printing one facilitator's statistics throws.
PrintThrows(entry) ==
  \/ \E st \in {entry.facilitation, entry.roundtrip} :
       \/ ToFixedThrows(st.mean) \/ ToFixedThrows(st.se)
       \/ ToFixedThrows(st.ci95Lower) \/ ToFixedThrows(st.ci95Upper)
       \/ ToFixedThrows(st.median) \/ ToFixedThrows(st.q1) \/ ToFixedThrows(st.q3)
  \/ ToFixedThrows(entry.facilitation.std)
  \/ ToFixedThrows(entry.facilitation.cv)

\* The index of the first facilitator, from i on, whose statistics cannot be
\* printed; 0 when all of them print.
RECURSIVE FirstThrow(_)
FirstThrow(i) ==
  IF i > Len(facilitators) THEN 0
  ELSE IF PrintThrows(StatsFor(facilitators[i])) THEN i
  ELSE FirstThrow(i + 1)

\* The loop ran to the end (crashAt = 0) or threw at facilitator crashAt, after
\* that facilitator's entry was stored.
DescribeUntil(crashAt) ==
  /\ facilitatorStats' =
       [f \in {facilitators[i] : i \in 1..(IF crashAt = 0 THEN Len(facilitators) ELSE crashAt)}
          |-> StatsFor(f)]
  /\ described' = SubSeq(facilitators, 1,
                         IF crashAt = 0 THEN Len(facilitators) ELSE crashAt - 1)
  /\ apc' = IF crashAt = 0 THEN "described" ELSE "crashed"

\* Lines 171-198: the descriptive loop.
DescribeStep ==
  /\ apc = "parsed"
  /\ DescribeUntil(FirstThrow(1))
  /\ UNCHANGED <<fnVars, driverVars>>
  /\ UNCHANGED <<batch, file, data, successfulData, facilitators, comparisons, pooledStats,
                 sampleSizes, rankings, overlaps>>

\* The index pairs of two loops of which the inner one starts at the first
\* facilitator and skips only j = i: every pair comes in both orders.
RECURSIVE PairsBothOrders(_, _, _)
PairsBothOrders(i, j, k) ==
  IF i > k THEN <<>>
  ELSE IF j > k THEN PairsBothOrders(i + 1, 1, k)
  ELSE (IF i = j THEN <<>> ELSE <<<<i, j>>>>) \o PairsBothOrders(i, j + 1, k)

\* The index pairs (i, j), i < j, in the order of the two nested loops.
RECURSIVE PairsFrom(_, _, _)
PairsFrom(i, j, k) ==
  IF i >= k THEN <<>>
  ELSE IF j > k THEN PairsFrom(i + 1, i + 2, k)
  ELSE <<<<i, j>>>> \o PairsFrom(i, j + 1, k)

\* Lines 216-233: the printed conclusion of one comparison.
Conclusion(f1, f2, w, diff, significant) ==
  [f1 |-> f1, f2 |-> f2, t |-> w.t, df |-> w.df, pValue |-> w.pValue, diff |-> diff,
   significant |-> significant,
   faster |-> IF ~significant THEN <<>> ELSE IF JLt(diff, Num(0)) THEN f1 ELSE f2,
   slower |-> IF ~significant THEN <<>> ELSE IF JLt(diff, Num(0)) THEN f2 ELSE f1]

\* Compared with the test pValue > 0.05 where lines 225-227 have pValue < 0.05.
ComparedInverted(f1, f2, w, diff) == Conclusion(f1, f2, w, diff, JGt(w.pValue, Num(500)))

Compared(f1, f2, w, diff) == Conclusion(f1, f2, w, diff, JLt(w.pValue, Num(500)))

\* Lines 210-233: one pairwise comparison.
Comparison(f1, f2) ==
  Compared(f1, f2,
           welchTTest(facilitatorStats[f1].data, facilitatorStats[f2].data),
           JSub(facilitatorStats[f1].facilitation.mean, facilitatorStats[f2].facilitation.mean))

ComparePairs(pairs) ==
  [p \in 1..Len(pairs) |-> Comparison(facilitators[pairs[p][1]], facilitators[pairs[p][2]])]

\* Lines 201-236.
CompareStep ==
  /\ apc = "described"
  /\ comparisons' = IF Len(facilitators) >= 2
                      THEN ComparePairs(PairsFrom(1, 2, Len(facilitators)))
                      ELSE <<>>
  /\ apc' = "compared"
  /\ UNCHANGED <<fnVars, driverVars>>
  /\ UNCHANGED <<batch, file, data, successfulData, facilitators, facilitatorStats,
                 described, pooledStats, sampleSizes, rankings, overlaps>>

differences == <<25, 50, 75, 100, 150, 200>>

\* Lines 243-258.
RecommendStep ==
  /\ apc = "compared"
  /\ LET allFacilitationTimes ==
           [i \in 1..Len(successfulData) |-> successfulData[i].facilitationMs]
         pooled == calculateStats(allFacilitationTimes)
     IN /\ pooledStats' = pooled
        /\ sampleSizes' =
             [d \in 1..Len(differences) |->
                LET n == calculateRequiredSampleSize(pooled.std, JsInt(differences[d]))
                IN [diff |-> differences[d], n |-> n,
                    cost |-> JMul(JMul(n, JsInt(Len(facilitators))), Num(1000))]]
  /\ apc' = "recommended"
  /\ UNCHANGED <<fnVars, driverVars>>
  /\ UNCHANGED <<batch, file, data, successfulData, facilitators, facilitatorStats,
                 described, comparisons, rankings, overlaps>>

\* InsertRanked with the comparison a.stats.mean >= b.stats.mean: an entry moves
\* in front of the entries of equal mean.
RECURSIVE InsertRankedTiesFirst(_, _)
InsertRankedTiesFirst(s, x) ==
  IF s = <<>> THEN <<x>>
  ELSE IF ~JLt(s[Len(s)].stats.mean, x.stats.mean)
    THEN InsertRankedTiesFirst(SubSeq(s, 1, Len(s) - 1), x) \o <<s[Len(s)]>>
    ELSE s \o <<x>>

\* Insert x behind every entry whose mean is not greater: the sort is stable.
RECURSIVE InsertRanked(_, _)
InsertRanked(s, x) ==
  IF s = <<>> THEN <<x>>
  ELSE IF JGt(JSub(s[Len(s)].stats.mean, x.stats.mean), Num(0))
    THEN InsertRanked(SubSeq(s, 1, Len(s) - 1), x) \o <<s[Len(s)]>>
    ELSE s \o <<x>>

\* entries.sort((a, b) => a.stats.mean - b.stats.mean)
RECURSIVE SortByMean(_)
SortByMean(entries) ==
  IF entries = <<>> THEN <<>>
  ELSE InsertRanked(SortByMean(SubSeq(entries, 1, Len(entries) - 1)), entries[Len(entries)])

\* Lines 265-273.
RankStep ==
  /\ apc = "recommended"
  /\ rankings' = SortByMean([i \in 1..Len(facilitators) |->
                    [facilitator |-> facilitators[i],
                     stats |-> facilitatorStats[facilitators[i]].facilitation]])
  /\ apc' = "ranked"
  /\ UNCHANGED <<fnVars, driverVars>>
  /\ UNCHANGED <<batch, file, data, successfulData, facilitators, facilitatorStats,
                 described, comparisons, pooledStats, sampleSizes, overlaps>>

\* Overlap with >= where line 281 has >.
OverlapOrTouch(current, next) == ~JLt(current.stats.ci95Upper, next.stats.ci95Lower)

\* Line 281.
Overlap(current, next) == JGt(current.stats.ci95Upper, next.stats.ci95Lower)

\* Lines 277-287.
OverlapStep ==
  /\ apc = "ranked"
  /\ overlaps' = [i \in 1..(Len(rankings) - 1) |->
                    [current |-> rankings[i].facilitator,
                     next |-> rankings[i + 1].facilitator,
                     overlap |-> Overlap(rankings[i], rankings[i + 1])]]
  /\ apc' = "done"
  /\ UNCHANGED <<fnVars, driverVars>>
  /\ UNCHANGED <<batch, file, data, successfulData, facilitators, facilitatorStats,
                 described, comparisons, pooledStats, sampleSizes, rankings>>

\* The outcomes a Base driver request can have in the analysed runs.
RunOutcomes ==
  {JsonOutcome(JsInt(0), JsInt(4)), JsonOutcome(JsInt(2), JsInt(4)),
   JsonOutcome(Undefined, JsInt(4)), ThrowOutcome(<<"e">>)}

\* The records a Base driver run leaves for the requests `choices` (endpoint
\* index and outcome), numbered per facilitator.
RunRecords(choices) ==
  [i \in 1..Len(choices) |->
     doFetchBase(BaseEndpoints[choices[i][1]],
                 Cardinality({j \in 1..i : choices[j][1] = choices[i][1]}),
                 choices[i][2])]

AnalysisIdle ==
  /\ data = <<>>
  /\ successfulData = <<>>
  /\ facilitators = <<>>
  /\ facilitatorStats = NoStats
  /\ described = <<>>
  /\ comparisons = <<>>
  /\ pooledStats = EmptyStats
  /\ sampleSizes = <<>>
  /\ rankings = <<>>
  /\ overlaps = <<>>

\* No direct call is made.
FnIdle ==
  /\ fn = "none"
  /\ args = <<>>
  /\ fpc = "idle"
  /\ ret = Undefined

\* No driver runs.
DriverIdle ==
  /\ driver = "none"
  /\ mode = "none"
  /\ dpc = "idle"
  /\ sample = 0
  /\ seqIndex = 0
  /\ promises = <<>>
  /\ roundResults = <<>>
  /\ results = <<>>
  /\ outputFile = <<>>

\* The analysis script is not run.
AnalysisOff ==
  /\ batch = <<>>
  /\ file = <<>>
  /\ apc = "off"
  /\ AnalysisIdle

\* The files that hold the records `rows`: the file a driver run leaves, and
\* for no records also a file without any content.
RunFiles(rows) ==
  {CSV_HEADER \o WriteRows(rows)} \cup (IF rows = <<>> THEN {<<>>} ELSE {})

\* The analysis script started on the file of a finished run.
Init ==
  /\ \E n \in 0..MaxRows :
       \E choices \in [1..n -> (1..Len(BaseEndpoints)) \X RunOutcomes] :
         batch = RunRecords(choices)
  /\ file \in RunFiles(batch)
  /\ apc = "start"
  /\ AnalysisIdle
  /\ FnIdle
  /\ DriverIdle

Next ==
  \/ ParseStep
  \/ DescribeStep
  \/ CompareStep
  \/ RecommendStep
  \/ RankStep
  \/ OverlapStep

Spec == Init /\ [][Next]_vars

\* ------------------------------------- the analysis of a longer, plainer run
\* The outcomes of the requests of the longer runs: an elapsed time or none.
ReportOutcomes == {JsonOutcome(JsInt(2), JsInt(4)), JsonOutcome(Undefined, JsInt(4))}

\* The analysis script started on the file of a finished run over the first two
\* endpoints, every request of which succeeded.
InitReport ==
  /\ \E n \in 0..MaxReportRows :
       \E choices \in [1..n -> (1..2) \X ReportOutcomes] :
         batch = RunRecords(choices)
  /\ file = CSV_HEADER \o WriteRows(batch)
  /\ apc = "start"
  /\ AnalysisIdle
  /\ FnIdle
  /\ DriverIdle

SpecReport == InitReport /\ [][Next]_vars

\* ------------------------------------ the analysis of three groups of thirty
\* A latency of ms milliseconds.  The runs of thirty samples per group hold
\* their latencies in units of 100 ms, so that the sums of squares stay within
\* the integers; the ranking and the Welch test depend on the unit only through
\* quotients of like quantities.
Ms(ms) == Num(ms * 100)

\* Fifteen distances from the mean whose squares add up to 15 * 29 / 30 of the
\* variance: thirty values mean - d, mean + d have that mean and that variance.
Spread(base, rest) == [i \in 1..15 |-> IF i <= 11 THEN base ELSE rest[i - 11]]

GroupValuesOf(mean, spread) ==
  [i \in 1..30 |-> IF i <= 15 THEN Ms(mean - spread[i]) ELSE Ms(mean + spread[i - 15])]

\* Thirty values of mean 661 and standard deviation 24, of mean 1774 and
\* standard deviation 243, and of mean 2131 and standard deviation 110.
ScenarioGroups ==
  <<GroupValuesOf(661, Spread(23, <<44, 23, 8, 2>>)),
    GroupValuesOf(1774, Spread(238, <<475, 86, 9, 5>>)),
    GroupValuesOf(2131, Spread(108, <<215, 29, 8, 4>>))>>

Reverse(values) == [i \in 1..Len(values) |-> values[Len(values) + 1 - i]]

\* The record of a successful sample as parseCSV returns it.
SuccessRecord(endpoint, sampleNum, ms) ==
  [timestamp |-> Timestamp,
   facilitator |-> endpoint.facilitator,
   network |-> endpoint.network,
   sampleNum |-> JsInt(sampleNum),
   facilitationMs |-> ms,
   roundtripMs |-> ms,
   success |-> TRUE,
   error |-> <<>>]

\* Ninety records, thirty per endpoint: endpoint e holds group assign[e], in
\* the listed order or reversed; the rows come round by round, or endpoint by
\* endpoint.
ScenarioRecords(assign, reversed, byRound) ==
  [k \in 1..90 |->
     LET e == IF byRound THEN ((k - 1) % 3) + 1 ELSE ((k - 1) \div 30) + 1
         n == IF byRound THEN ((k - 1) \div 3) + 1 ELSE ((k - 1) % 30) + 1
     IN SuccessRecord(BaseEndpoints[e], n,
          (IF reversed THEN Reverse(ScenarioGroups[assign[e]])
                       ELSE ScenarioGroups[assign[e]])[n])]

\* analyzeData after parseCSV has returned the ninety records.
InitScenario ==
  /\ \E assign \in {a \in [1..3 -> 1..3] : \A i, j \in 1..3 : a[i] = a[j] => i = j} :
       \E reversed, byRound \in BOOLEAN :
         batch = ScenarioRecords(assign, reversed, byRound)
  /\ file = <<>>
  /\ data = batch
  /\ successfulData = batch
  /\ facilitators = Unique([i \in 1..Len(batch) |-> batch[i].facilitator])
  /\ apc = "parsed"
  /\ facilitatorStats = NoStats
  /\ described = <<>>
  /\ comparisons = <<>>
  /\ pooledStats = EmptyStats
  /\ sampleSizes = <<>>
  /\ rankings = <<>>
  /\ overlaps = <<>>
  /\ FnIdle
  /\ DriverIdle

NextScenario ==
  \/ DescribeStep
  \/ CompareStep
  \/ RecommendStep
  \/ RankStep
  \/ OverlapStep

SpecScenario == InitScenario /\ [][NextScenario]_vars

\* --------------------------------------------- direct calls of welchTTest
\* The sequences of at most n values drawn from vals.
SeqsUpTo(vals, n) == UNION {[1..k -> vals] : k \in 0..n}

GroupValues == {JsInt(1), JsInt(3)}

\* A caller is about to pass two groups of any size to welchTTest.
InitWelch ==
  /\ fn = "welchTTest"
  /\ args \in SeqsUpTo(GroupValues, MaxGroup) \X SeqsUpTo(GroupValues, MaxGroup)
  /\ fpc = "called"
  /\ ret = Undefined
  /\ AnalysisOff
  /\ DriverIdle

\* Lines 108-129 hold no throw statement and no call that throws on an array of
\* numbers: every call returns.
CallWelch ==
  /\ fn = "welchTTest"
  /\ fpc = "called"
  /\ ret' = welchTTest(args[1], args[2])
  /\ fpc' = "returned"
  /\ UNCHANGED <<fn, args, analysisVars, driverVars>>

NextWelch == CallWelch

SpecWelch == InitWelch /\ [][NextWelch]_vars

\* ------------------------------- direct calls of calculateRequiredSampleSize
\* A caller is about to pass a standard deviation and a difference to the
\* analysis script's planner or to the pilot drivers' copy.
InitPlanner ==
  /\ fn \in {"calculateRequiredSampleSize", "calculateRequiredSampleSizePilot"}
  /\ args \in {JsInt(s) : s \in 0..MaxStd} \X {JsInt(d) : d \in 0..MaxDiff \cup {DefaultDiff}}
  /\ fpc = "called"
  /\ ret = Undefined
  /\ AnalysisOff
  /\ DriverIdle

\* part_005 lines 100-105: every call returns.
CallPlanner ==
  /\ fn = "calculateRequiredSampleSize"
  /\ fpc = "called"
  /\ ret' = calculateRequiredSampleSize(args[1], args[2])
  /\ fpc' = "returned"
  /\ UNCHANGED <<fn, args, analysisVars, driverVars>>

\* part_003 lines 140-148: every call returns.
CallPlannerPilot ==
  /\ fn = "calculateRequiredSampleSizePilot"
  /\ fpc = "called"
  /\ ret' = calculateRequiredSampleSizePilot(args[1], args[2])
  /\ fpc' = "returned"
  /\ UNCHANGED <<fn, args, analysisVars, driverVars>>

NextPlanner ==
  \/ CallPlanner
  \/ CallPlannerPilot

SpecPlanner == InitPlanner /\ [][NextPlanner]_vars

\* ------------------------------------------- direct calls of calculateStats
\* The main drivers' calculateStats with sorted[Math.floor(n / 2)] as the median
\* of every array, of even length too.
calculateStatsMainUpperMedian(values) ==
  LET n == Len(values)
      sorted == SortNum(values)
      mean == JDiv(Sum(values), JsInt(n))
      variance == IF n > 1 THEN JDiv(SumSq(values, mean), JsInt(n - 1)) ELSE Num(0)
      std == JSqrt(variance)
      cv == IF JGt(mean, Num(0)) THEN JMul(JDiv(std, mean), JsInt(100)) ELSE Num(0)
  IN IF n = 0
       THEN [mean |-> Num(0), std |-> Num(0), median |-> Num(0), min |-> Num(0),
             max |-> Num(0), cv |-> Num(0)]
       ELSE [mean |-> mean, std |-> std, median |-> sorted[(n \div 2) + 1],
             min |-> sorted[1], max |-> sorted[n], cv |-> cv]

\* The main drivers' calculateStats (part_004 lines 126-140 and 482-496).
calculateStatsMain(values) ==
  LET n == Len(values)
      sorted == SortNum(values)
      mean == JDiv(Sum(values), JsInt(n))
      variance == IF n > 1 THEN JDiv(SumSq(values, mean), JsInt(n - 1)) ELSE Num(0)
      std == JSqrt(variance)
      median == IF n % 2 = 0
                  THEN JDiv(JAdd(sorted[n \div 2], sorted[(n \div 2) + 1]), JsInt(2))
                  ELSE sorted[(n \div 2) + 1]
      cv == IF JGt(mean, Num(0)) THEN JMul(JDiv(std, mean), JsInt(100)) ELSE Num(0)
  IN IF n = 0
       THEN [mean |-> Num(0), std |-> Num(0), median |-> Num(0), min |-> Num(0),
             max |-> Num(0), cv |-> Num(0)]
       ELSE [mean |-> mean, std |-> std, median |-> median, min |-> sorted[1],
             max |-> sorted[n], cv |-> cv]

\* The pilot drivers' calculateStats (part_003 lines 128-138 and
\* benchmark-solana-pilot.ts lines 134-144): the variance is divided by n - 1
\* and the cv by the mean, whatever they are.
calculateStatsPilot(values) ==
  LET n == Len(values)
      mean == JDiv(Sum(values), JsInt(n))
      variance == JDiv(SumSq(values, mean), JsInt(n - 1))
      std == JSqrt(variance)
      cv == JMul(JDiv(std, mean), JsInt(100))
  IN IF n = 0 THEN [mean |-> Num(0), std |-> Num(0), cv |-> Num(0)]
     ELSE [mean |-> mean, std |-> std, cv |-> cv]

\* The numbers a caller passes: latencies in ms, 9 and 10 among them, which a
\* lexical sort would put in the other order.
StatValues == {JsInt(0), JsInt(2), JsInt(9), JsInt(10)}

StatsCalculators == {"calculateStats", "calculateStatsMain", "calculateStatsPilot"}

\* A caller is about to pass an array of numbers to one of the calculators.
InitStats ==
  /\ fn \in StatsCalculators
  /\ args \in {<<values>> : values \in SeqsUpTo(StatValues, MaxValues)}
  /\ fpc = "called"
  /\ ret = Undefined
  /\ AnalysisOff
  /\ DriverIdle

\* part_005 lines 43-98: the function sorts a copy of its argument, so the
\* caller's array is what it was; every call returns.
CallStats ==
  /\ fn = "calculateStats"
  /\ fpc = "called"
  /\ ret' = calculateStats(args[1])
  /\ args' = <<args[1]>>
  /\ fpc' = "returned"
  /\ UNCHANGED <<fn, analysisVars, driverVars>>

CallStatsMain ==
  /\ fn = "calculateStatsMain"
  /\ fpc = "called"
  /\ ret' = calculateStatsMain(args[1])
  /\ args' = <<args[1]>>
  /\ fpc' = "returned"
  /\ UNCHANGED <<fn, analysisVars, driverVars>>

CallStatsPilot ==
  /\ fn = "calculateStatsPilot"
  /\ fpc = "called"
  /\ ret' = calculateStatsPilot(args[1])
  /\ args' = <<args[1]>>
  /\ fpc' = "returned"
  /\ UNCHANGED <<fn, analysisVars, driverVars>>

NextStats ==
  \/ CallStats
  \/ CallStatsMain
  \/ CallStatsPilot

SpecStats == InitStats /\ [][NextStats]_vars

\* ------------------------------ calculateStats in binary floating point
\* The numbers above carry four decimal places and add without error.  A
\* JavaScript number is a binary floating-point number, and every operation on
\* it rounds its result to the nearest number of the format (ties to the even
\* significand).  This section computes lines 64-66 and 78 of part_005 in such a
\* format of SignificandBits bits where the format of the code has 53: a number
\* is m * 2^e with m = 0 or 2^(SignificandBits-1) <= |m| < 2^SignificandBits.
RZero == [m |-> 0, e |-> 0]

BitLen(n) == CHOOSE b \in 0..30 : n < 2^b /\ (b = 0 \/ 2^(b - 1) <= n)

\* The significand q of sign sgn at exponent e, renormalised when the rounding
\* carried it to 2^SignificandBits.
Carried(sgn, q, e) ==
  IF q = 2^SignificandBits THEN [m |-> sgn * 2^(SignificandBits - 1), e |-> e + 1]
  ELSE [m |-> sgn * q, e |-> e]

\* a * 2^e for a > 0 of more than SignificandBits bits, the s bits in excess
\* rounded away.
Shortened(sgn, a, e, s) ==
  Carried(sgn,
          IF \/ a % 2^s > 2^(s - 1)
             \/ a % 2^s = 2^(s - 1) /\ (a \div 2^s) % 2 = 1
            THEN (a \div 2^s) + 1 ELSE a \div 2^s,
          e + s)

\* The number of the format nearest to n * 2^e.
Nearest(n, e) ==
  IF n = 0 THEN RZero
  ELSE IF BitLen(Abs(n)) <= SignificandBits
    THEN [m |-> n * 2^(SignificandBits - BitLen(Abs(n))),
          e |-> e - (SignificandBits - BitLen(Abs(n)))]
    ELSE Shortened(IF n < 0 THEN -1 ELSE 1, Abs(n), e, BitLen(Abs(n)) - SignificandBits)

Min(a, b) == IF a < b THEN a ELSE b

\* x + y: a term below a quarter of the other's last place leaves it as it is.
RAdd(x, y) ==
  IF x.m = 0 THEN y
  ELSE IF y.m = 0 THEN x
  ELSE IF x.e - y.e > SignificandBits + 2 THEN x
  ELSE IF y.e - x.e > SignificandBits + 2 THEN y
  ELSE Nearest(x.m * 2^(x.e - Min(x.e, y.e)) + y.m * 2^(y.e - Min(x.e, y.e)), Min(x.e, y.e))

RSub(x, y) == RAdd(x, [m |-> -y.m, e |-> y.e])

RMul(x, y) == Nearest(x.m * y.m, x.e + y.e)

\* x / y for y # 0: the quotient is formed to SignificandBits + 2 bits or more,
\* with one more bit that tells whether anything was left over.
RDiv(x, y) ==
  LET sgn == IF (x.m < 0) # (y.m < 0) THEN -1 ELSE 1
      num == Abs(x.m) * 2^(SignificandBits + 2)
  IN Nearest(sgn * (2 * (num \div Abs(y.m)) + (IF num % Abs(y.m) = 0 THEN 0 ELSE 1)),
             x.e - y.e - SignificandBits - 3)

RECURSIVE IRoot(_, _, _)
IRoot(n, lo, hi) ==
  IF lo >= hi THEN lo
  ELSE IF ((lo + hi + 1) \div 2) * ((lo + hi + 1) \div 2) <= n
    THEN IRoot(n, (lo + hi + 1) \div 2, hi)
    ELSE IRoot(n, lo, ((lo + hi + 1) \div 2) - 1)

\* Math.sqrt(x) for x >= 0: the root of the significand, shifted to an even
\* exponent, with one more bit that tells whether the root is inexact.
RSqrt(x) ==
  LET k == IF (x.e - 18) % 2 = 0 THEN 18 ELSE 19
      n == x.m * 2^k
      r == IRoot(n, 0, 2^15)
  IN IF x.m = 0 THEN RZero
     ELSE Nearest(2 * r + (IF r * r = n THEN 0 ELSE 1), ((x.e - k) \div 2) - 1)

\* The number an integer of the input is.
RNum(x) == Nearest(x.v \div Scale, 0)

\* values.reduce((a, b) => a + b, 0)
RECURSIVE RSum(_)
RSum(values) ==
  IF values = <<>> THEN RZero
  ELSE RAdd(RSum(SubSeq(values, 1, Len(values) - 1)), RNum(values[Len(values)]))

\* values.reduce((sum, val) => sum + Math.pow(val - mean, 2), 0)
RECURSIVE RSumSq(_, _)
RSumSq(values, mean) ==
  IF values = <<>> THEN RZero
  ELSE RAdd(RSumSq(SubSeq(values, 1, Len(values) - 1), mean),
            RMul(RSub(RNum(values[Len(values)]), mean), RSub(RNum(values[Len(values)]), mean)))

RStd(values, mean) ==
  IF Len(values) > 1
    THEN RSqrt(RDiv(RSumSq(values, mean), Nearest(Len(values) - 1, 0)))
    ELSE RZero

RCv(std, mean) == IF mean.m > 0 THEN RMul(RDiv(std, mean), Nearest(100, 0)) ELSE RZero

\* mean, std and cv as lines 64-66 and 78 compute them.
Moments(values, mean) ==
  [mean |-> mean, std |-> RStd(values, mean), cv |-> RCv(RStd(values, mean), mean)]

calculateStatsRounded(values) ==
  IF Len(values) = 0 THEN [mean |-> RZero, std |-> RZero, cv |-> RZero]
  ELSE Moments(values, RDiv(RSum(values), Nearest(Len(values), 0)))

RoundedValues == {JsInt(0), JsInt(1), JsInt(2), JsInt(3)}

\* A caller is about to pass an array of small integers to calculateStats.
InitRounded ==
  /\ fn = "calculateStats"
  /\ args \in {<<values>> : values \in SeqsUpTo(RoundedValues, MaxValues)}
  /\ fpc = "called"
  /\ ret = Undefined
  /\ AnalysisOff
  /\ DriverIdle

CallStatsRounded ==
  /\ fn = "calculateStats"
  /\ fpc = "called"
  /\ ret' = calculateStatsRounded(args[1])
  /\ args' = <<args[1]>>
  /\ fpc' = "returned"
  /\ UNCHANGED <<fn, analysisVars, driverVars>>

NextRounded == CallStatsRounded

SpecRounded == InitRounded /\ [][NextRounded]_vars

\* ------------------------------------------------------------ a driver run
\* The Base pilot and main drivers share one doFetch and one round loop, and so
\* do the two Solana drivers.
ENDPOINTS(d) == IF d = "base" THEN BaseEndpoints ELSE SolanaEndpoints

doFetch(d, endpoint, sampleNum, outcome) ==
  IF d = "base" THEN doFetchBase(endpoint, sampleNum, outcome)
  ELSE doFetchSolana(endpoint, sampleNum, outcome)

\* What a payment request can do in a run: a body with or without elapsed, or
\* an error whose message is plain or runs over two lines.
DriverOutcomes ==
  {JsonOutcome(JsInt(2), JsInt(4)), JsonOutcome(Undefined, JsInt(4)), ThrowOutcome(<<"e">>),
   ThrowOutcome(<<"a", "\n", "b">>)}

\* The promise of a doFetch call: not made, pending, or fulfilled with a record.
\* doFetch catches every error of the request, so its promise never rejects.
NotCalled == [state |-> "none", value |-> Null]
Pending == [state |-> "pending", value |-> Null]
Fulfilled(record) == [state |-> "fulfilled", value |-> record]

InitDriver ==
  /\ driver \in {"base", "solana"}
  /\ mode \in {"concurrent", "sequential"}
  /\ dpc = "start"
  /\ sample = 0
  /\ seqIndex = 0
  /\ promises = <<>>
  /\ roundResults = <<>>
  /\ results = <<>>
  /\ outputFile = <<>>
  /\ AnalysisOff
  /\ FnIdle

\* fs.writeFileSync(outputFile, CSV_HEADER) and the entry into the round loop.
StartRun ==
  /\ dpc = "start"
  /\ outputFile' = CSV_HEADER
  /\ sample' = 1
  /\ promises' = [e \in 1..Len(ENDPOINTS(driver)) |-> NotCalled]
  /\ dpc' = "loop"
  /\ UNCHANGED <<driver, mode, seqIndex, roundResults, results, analysisVars, fnVars>>

\* ENDPOINTS.map(endpoint => doFetch(endpoint, sample)): every request of the
\* round is started before the loop awaits.
DispatchRound ==
  /\ dpc = "loop"
  /\ mode = "concurrent"
  /\ sample <= MaxSamples
  /\ promises' = [e \in 1..Len(ENDPOINTS(driver)) |-> Pending]
  /\ dpc' = "awaitAll"
  /\ UNCHANGED <<driver, mode, sample, seqIndex, roundResults, results, outputFile,
                 analysisVars, fnVars>>

\* The sequential branch with doFetch(endpoint, sample) called for every
\* endpoint that is left before the first await.
DispatchOneEager ==
  /\ dpc \in {"loop", "seqNext"}
  /\ mode = "sequential"
  /\ sample <= MaxSamples
  /\ promises' = [e \in 1..Len(promises) |-> IF e > seqIndex THEN Pending ELSE promises[e]]
  /\ dpc' = "awaitOne"
  /\ UNCHANGED <<driver, mode, sample, seqIndex, roundResults, results, outputFile,
                 analysisVars, fnVars>>

\* await doFetch(endpoint, sample) of the sequential branch: the call is made.
DispatchOne ==
  /\ dpc \in {"loop", "seqNext"}
  /\ mode = "sequential"
  /\ sample <= MaxSamples
  /\ promises' = [promises EXCEPT ![seqIndex + 1] = Pending]
  /\ dpc' = "awaitOne"
  /\ UNCHANGED <<driver, mode, sample, seqIndex, roundResults, results, outputFile,
                 analysisVars, fnVars>>

\* A pending request ends, and doFetch has no catch clause: an error of the
\* request rejects the promise, the await of the round loop throws and the run
\* is over.
SettleRejecting ==
  \E e \in 1..Len(promises) :
    \E outcome \in DriverOutcomes :
      /\ promises[e].state = "pending"
      /\ IF outcome.kind = "throw"
           THEN promises' = promises /\ dpc' = "aborted"
           ELSE /\ promises' = [promises EXCEPT
                       ![e] = Fulfilled(doFetch(driver, ENDPOINTS(driver)[e], sample, outcome))]
                /\ dpc' = dpc
      /\ UNCHANGED <<driver, mode, sample, seqIndex, roundResults, results,
                     outputFile, analysisVars, fnVars>>

\* A pending request ends, in any order, and doFetch returns its record.
Settle ==
  \E e \in 1..Len(promises) :
    \E outcome \in DriverOutcomes :
      /\ promises[e].state = "pending"
      /\ promises' = [promises EXCEPT
                        ![e] = Fulfilled(doFetch(driver, ENDPOINTS(driver)[e], sample, outcome))]
      /\ UNCHANGED <<driver, mode, dpc, sample, seqIndex, roundResults, results,
                     outputFile, analysisVars, fnVars>>

\* roundResults.push(...await Promise.all(roundPromises))
AwaitAll ==
  /\ dpc = "awaitAll"
  /\ \A e \in 1..Len(promises) : promises[e].state = "fulfilled"
  /\ roundResults' = roundResults \o [e \in 1..Len(promises) |-> promises[e].value]
  /\ dpc' = "log"
  /\ UNCHANGED <<driver, mode, sample, seqIndex, promises, results, outputFile,
                 analysisVars, fnVars>>

\* The sequential branch resumes: roundResults.push(result), then the sleep
\* between calls unless this was the last endpoint.
AwaitOne ==
  /\ dpc = "awaitOne"
  /\ promises[seqIndex + 1].state = "fulfilled"
  /\ roundResults' = Append(roundResults, promises[seqIndex + 1].value)
  /\ dpc' = IF seqIndex < Len(ENDPOINTS(driver)) - 1 THEN "seqSleep" ELSE "log"
  /\ UNCHANGED <<driver, mode, sample, seqIndex, promises, results, outputFile,
                 analysisVars, fnVars>>

\* sleep(DELAY_BETWEEN_SEQUENTIAL_MS) ends and the inner loop steps on.
SeqSleepDone ==
  /\ dpc = "seqSleep"
  /\ seqIndex' = seqIndex + 1
  /\ dpc' = "seqNext"
  /\ UNCHANGED <<driver, mode, sample, promises, roundResults, results, outputFile,
                 analysisVars, fnVars>>

\* The loop over roundResults: results.push and fs.appendFileSync per record,
\* then the sleep between rounds unless this was the last round.
LogRound ==
  /\ dpc = "log"
  /\ results' = results \o roundResults
  /\ outputFile' = outputFile \o WriteRows(roundResults)
  /\ IF sample < MaxSamples
       THEN dpc' = "roundSleep" /\ sample' = sample
       ELSE dpc' = "summary" /\ sample' = sample + 1
  /\ UNCHANGED <<driver, mode, seqIndex, promises, roundResults, analysisVars, fnVars>>

\* sleep(DELAY_BETWEEN_ROUNDS_MS) ends: sample++ and a new roundResults.
RoundSleepDone ==
  /\ dpc = "roundSleep"
  /\ sample' = sample + 1
  /\ seqIndex' = 0
  /\ roundResults' = <<>>
  /\ promises' = [e \in 1..Len(promises) |-> NotCalled]
  /\ dpc' = "loop"
  /\ UNCHANGED <<driver, mode, results, outputFile, analysisVars, fnVars>>

\* The summary after the loop only prints: it changes neither results nor the file.
Summary ==
  /\ dpc = "summary"
  /\ dpc' = "done"
  /\ UNCHANGED <<driver, mode, sample, seqIndex, promises, roundResults, results,
                 outputFile, analysisVars, fnVars>>

NextDriver ==
  \/ StartRun
  \/ DispatchRound
  \/ DispatchOne
  \/ Settle
  \/ AwaitAll
  \/ AwaitOne
  \/ SeqSleepDone
  \/ LogRound
  \/ RoundSleepDone
  \/ Summary

SpecDriver == InitDriver /\ [][NextDriver]_vars

\* A driver run in which every request ends (it resolves or rejects) and the
\* runtime resumes every continuation that is ready and fires every timer.
FairDriver ==
  /\ WF_vars(Settle)
  /\ WF_vars(StartRun \/ DispatchRound \/ DispatchOne \/ AwaitAll \/ AwaitOne
               \/ SeqSleepDone \/ LogRound \/ RoundSleepDone \/ Summary)

SpecDriverFair == InitDriver /\ [][NextDriver]_vars /\ FairDriver

\* ------------------------------------------- a batch written and read back
\* What a payment request can do: a positive, a zero or a missing elapsed, or an
\* error whose message is plain, holds a comma, or runs over two lines.
CsvOutcomes ==
  {JsonOutcome(JsInt(2), JsInt(4)), JsonOutcome(JsInt(0), JsInt(0)),
   JsonOutcome(Undefined, JsInt(4)),
   ThrowOutcome(<<"e">>), ThrowOutcome(<<"a", ",", "b">>), ThrowOutcome(<<"a", "\n", "b">>)}

\* The records driver d leaves for the requests `choices` (endpoint index and
\* outcome), numbered per facilitator.
DriverRecords(d, choices) ==
  [i \in 1..Len(choices) |->
     doFetch(d, ENDPOINTS(d)[choices[i][1]],
             Cardinality({j \in 1..i : choices[j][1] = choices[i][1]}),
             choices[i][2])]

\* A driver holds a batch of records that is not yet on file.
InitCsv ==
  /\ \E d \in {"base", "solana"} :
       \E n \in 0..MaxBatch :
         \E choices \in [1..n -> (1..Len(ENDPOINTS(d))) \X CsvOutcomes] :
           batch = DriverRecords(d, choices)
  /\ file = <<>>
  /\ apc = "unwritten"
  /\ AnalysisIdle
  /\ FnIdle
  /\ DriverIdle

\* writeFileSync(CSV_HEADER), then appendFileSync(resultToCsvRow(result)) for
\* every record of the batch.
WriteBatch ==
  /\ apc = "unwritten"
  /\ file' = CSV_HEADER \o WriteRows(batch)
  /\ apc' = "start"
  /\ UNCHANGED <<fnVars, driverVars>>
  /\ UNCHANGED <<batch, data, successfulData, facilitators, facilitatorStats, described,
                 comparisons, pooledStats, sampleSizes, rankings, overlaps>>

NextCsv ==
  \/ WriteBatch
  \/ ParseStep

SpecCsv == InitCsv /\ [][NextCsv]_vars

\* ------------------------------------------ the analysis of an arbitrary file
Line(fields) == Join(fields, ",") \o <<"\n">>

TRUE_TEXT == <<"t", "r", "u", "e">>
FALSE_TEXT == <<"f", "a", "l", "s", "e">>

\* Data lines a file can hold: two as a driver writes them, the others with a
\* wrong number of columns or a non-numeric text in a numeric column.
IngestLines ==
  {Line(<<Timestamp, FareSide, <<"b">>, <<"1">>, <<"2">>, <<"4">>, TRUE_TEXT, <<>>>>),
   Line(<<Timestamp, PayAI, <<"b">>, <<"1">>, <<>>, <<>>, FALSE_TEXT, <<"e">>>>),
   Line(<<Timestamp, FareSide, <<"b">>, <<"1">>, <<"2">>, <<"4">>, TRUE_TEXT>>),
   Line(<<Timestamp, PayAI, <<"b">>, <<"1">>, <<"2">>, <<"4">>, TRUE_TEXT, <<"a">>, <<"b">>>>),
   Line(<<Timestamp, FareSide, <<"b">>, <<"1">>, <<"2">>>>),
   Line(<<Timestamp, FareSide, <<"b">>, <<"x">>, <<"2">>, <<"4">>, TRUE_TEXT, <<>>>>),
   Line(<<Timestamp, PayAI, <<"b">>, <<"1">>, <<"x">>, <<"4">>, TRUE_TEXT, <<>>>>),
   Line(<<Timestamp, FareSide, <<"b">>, <<"1">>, <<"2">>, <<"x">>, TRUE_TEXT, <<>>>>)}

RECURSIVE Concat(_)
Concat(texts) == IF texts = <<>> THEN <<>> ELSE texts[1] \o Concat(Tail(texts))

\* The analysis script started on a file of any such lines.
InitIngest ==
  /\ \E lines \in SeqsUpTo(IngestLines, MaxLines) : file = CSV_HEADER \o Concat(lines)
  /\ batch = <<>>
  /\ apc = "start"
  /\ AnalysisIdle
  /\ FnIdle
  /\ DriverIdle

NextIngest ==
  \/ ParseStep
  \/ DescribeStep

SpecIngest == InitIngest /\ [][NextIngest]_vars

\* ------------------------------------------------------------------ claims
\* The rows of the analysed batch that belong to facilitator f.
RowsOf(f) == {i \in 1..Len(batch) : batch[i].facilitator = f}
SuccessesOf(f) == {i \in RowsOf(f) : batch[i].success}
MeasuredOf(f) == {i \in SuccessesOf(f) : ~IsNullish(batch[i].facilitationMs)}
BatchFacilitators == {batch[i].facilitator : i \in 1..Len(batch)}
FirstSuccess(f) == CHOOSE i \in SuccessesOf(f) : \A j \in SuccessesOf(f) : i <= j
Ranked == {rankings[i].facilitator : i \in 1..Len(rankings)}

\* C1: a facilitator all of whose samples failed still appears in the finished
\* report (as "no data") and is absent from the ranking.
C1_AllFailedReported ==
  apc = "done" =>
    \A f \in BatchFacilitators :
      SuccessesOf(f) = {} => (f \in Range(described) /\ f \notin Ranked)

\* C3: the pairwise step never runs welchTTest on a pair in which either side
\* has fewer than 2 values.
C3_SmallPairsSkipped ==
  \A i \in 1..Len(comparisons) :
    /\ Len(facilitatorStats[comparisons[i].f1].data) >= 2
    /\ Len(facilitatorStats[comparisons[i].f2].data) >= 2

\* C5: a successful sample without facilitationMs does not count toward the n of
\* the facilitation statistics, of a facilitator or pooled, and does count in
\* the roundtrip statistics and among the successful records.
C5_MissingFacilitationExcluded ==
  /\ \A f \in DOMAIN facilitatorStats :
       /\ facilitatorStats[f].facilitation.n = Cardinality(MeasuredOf(f))
       /\ facilitatorStats[f].roundtrip.n = Cardinality(SuccessesOf(f))
  /\ apc \in {"recommended", "ranked", "done"} =>
       pooledStats.n = Cardinality({i \in 1..Len(batch) :
                          batch[i].success /\ ~IsNullish(batch[i].facilitationMs)})
  /\ apc # "start" =>
       Len(successfulData) = Cardinality({i \in 1..Len(batch) : batch[i].success})

\* C9: the ranking holds every facilitator group exactly once, each with the
\* facilitation summary computed for it, in ascending order of that summary's
\* mean, groups of equal mean in the order in which they first appear in the
\* batch.
C9_RankingAscendingStable ==
  apc \in {"ranked", "done"} =>
    /\ Ranked = {f \in BatchFacilitators : SuccessesOf(f) # {}}
    /\ Len(rankings) = Cardinality(Ranked)
    /\ \A i \in 1..Len(rankings) :
         rankings[i].stats = facilitatorStats[rankings[i].facilitator].facilitation
    /\ \A i, j \in 1..Len(rankings) :
         i < j =>
           /\ rankings[i].stats.mean.v <= rankings[j].stats.mean.v
           /\ rankings[i].stats.mean.v = rankings[j].stats.mean.v =>
                FirstSuccess(rankings[i].facilitator) < FirstSuccess(rankings[j].facilitator)

\* A finished ranking of three groups in which two groups tie and the sort moved
\* a group in front of one that appeared earlier.
C9_Witness ==
  /\ apc = "done"
  /\ Len(rankings) = 3
  /\ \E i \in 1..2 : rankings[i].stats.mean = rankings[i + 1].stats.mean
  /\ \E i \in 1..2 :
       FirstSuccess(rankings[i].facilitator) > FirstSuccess(rankings[i + 1].facilitator)

\* C10: a ranking of k >= 1 groups gets k - 1 overlap annotations, one for each
\* adjacent pair in rank order, marked overlapping exactly when the upper bound
\* of the first is greater than the lower bound of the second.
C10_OverlapAnnotations ==
  apc = "done" /\ Len(rankings) >= 1 =>
    /\ Len(overlaps) = Len(rankings) - 1
    /\ \A i \in 1..Len(overlaps) :
         /\ overlaps[i].current = rankings[i].facilitator
         /\ overlaps[i].next = rankings[i + 1].facilitator
         /\ overlaps[i].overlap <=>
              rankings[i].stats.ci95Upper.v > rankings[i + 1].stats.ci95Lower.v

\* A finished report of three groups with an adjacent pair whose bounds are equal.
C10_Witness ==
  /\ apc = "done"
  /\ Len(overlaps) = 2
  /\ \E i \in 1..2 :
       /\ rankings[i].stats.ci95Upper = rankings[i + 1].stats.ci95Lower
       /\ ~overlaps[i].overlap

\* C2: a call of welchTTest with a group of fewer than 2 values ends in an
\* InvalidInput failure; it does not return a result whose t, df or pValue is
\* NaN or infinite.
C2_SmallGroupRejected ==
  (fn = "welchTTest" /\ fpc # "called" /\ (Len(args[1]) < 2 \/ Len(args[2]) < 2)) =>
    \/ fpc = "raised"
    \/ IsFinite(ret.t) /\ IsFinite(ret.df) /\ IsFinite(ret.pValue)

\* C4: a call of calculateRequiredSampleSize, of either copy, with
\* minDetectableDiff = 0 ends in an InvalidInput failure; it does not return
\* Infinity or NaN, whatever the standard deviation.
C4_ZeroDifferenceRejected ==
  (fn \in {"calculateRequiredSampleSize", "calculateRequiredSampleSizePilot"}
     /\ fpc # "called" /\ args[2] = JsInt(0)) =>
    \/ fpc = "raised"
    \/ IsFinite(ret)

\* The records doFetch has returned so far in the run.
Produced ==
  {promises[e].value : e \in {x \in 1..Len(promises) : promises[x].state = "fulfilled"}}
    \cup Range(results)

\* C6: in every record returned by doFetch, success false goes with both
\* latencies absent and a non-empty error, and success true goes with a present
\* roundtripMs and an empty error.
C6_RecordInvariant ==
  \A r \in Produced :
    /\ ~r.success =>
         (IsNullish(r.facilitationMs) /\ IsNullish(r.roundtripMs) /\ r.error # <<>>)
    /\ r.success => (~IsNullish(r.roundtripMs) /\ r.error = <<>>)

\* The text of an absent or present latency is read back as the same latency.
SameLatency(written, read) ==
  IF IsNullish(written) THEN IsNullish(read) ELSE read = written

\* C7: a batch written with resultToCsvRow and read back with parseCSV gives as
\* many records in the same order, every field equal to the original, the error
\* text equal up to commas replaced with semicolons.
C7_RoundTrip ==
  apc = "parsed" =>
    /\ Len(data) = Len(batch)
    /\ \A i \in 1..Len(batch) :
         i <= Len(data) =>
           /\ data[i].timestamp = batch[i].timestamp
           /\ data[i].facilitator = batch[i].facilitator
           /\ data[i].network = batch[i].network
           /\ data[i].sampleNum = batch[i].sampleNum
           /\ SameLatency(batch[i].facilitationMs, data[i].facilitationMs)
           /\ SameLatency(batch[i].roundtripMs, data[i].roundtripMs)
           /\ data[i].success = batch[i].success
           /\ data[i].error = ReplaceCommas(batch[i].error)

\* The data lines of the analysed file, in order.
FileLines == Tail(Split(Trim(file), "\n"))

IsNumeral(text) == text # <<>> /\ \A i \in 1..Len(text) : IsDigit(text[i])

\* A line of eight columns whose numeric columns hold numerals, the latencies
\* possibly empty.
WellFormed(line) ==
  /\ Len(Split(line, ",")) = 8
  /\ IsNumeral(Split(line, ",")[4])
  /\ Split(line, ",")[5] = <<>> \/ IsNumeral(Split(line, ",")[5])
  /\ Split(line, ",")[6] = <<>> \/ IsNumeral(Split(line, ",")[6])

\* C8: only records of well-formed lines reach the statistics computation: the
\* values summarised for a facilitator are those of its well-formed successful
\* lines and no others.
C8_MalformedQuarantined ==
  \A f \in DOMAIN facilitatorStats :
    facilitatorStats[f].roundtrip.n =
      Cardinality({i \in 1..Len(data) :
                     /\ data[i].success
                     /\ data[i].facilitator = f
                     /\ WellFormed(FileLines[i])})

\* The positions of analyzeData from which its next step runs unconditionally.
Running == {"start", "parsed", "described", "compared", "recommended", "ranked"}

\* C11: on a batch without any successful sample, a file without data lines
\* included, the analysis never raises: it is at its end or at a position from
\* which it steps on, and it ends with an empty ranking, no pairwise comparison
\* and no overlap annotation.
C11_NoSuccessesEmptyReport ==
  (\A i \in 1..Len(batch) : ~batch[i].success) =>
    /\ apc \in Running \cup {"done"}
    /\ apc = "done" => (rankings = <<>> /\ comparisons = <<>> /\ overlaps = <<>>)

\* A finished report on a file that holds failed samples of two facilitators and
\* no successful one.
C11_Witness ==
  /\ apc = "done"
  /\ successfulData = <<>>
  /\ Cardinality({data[i].facilitator : i \in 1..Len(data)}) >= 2

\* The facilitation values of the successful samples of the batch that have one,
\* in batch order.
PooledMeasured ==
  LET kept == SelectSeq(batch, LAMBDA r : r.success /\ ~IsNullish(r.facilitationMs))
  IN [i \in 1..Len(kept) |-> kept[i].facilitationMs]

\* C12: the sample-size table has one entry for each of the differences 25, 50,
\* 75, 100, 150 and 200, in this order, each the required sample size for the
\* standard deviation of the pooled non-null facilitation values of the
\* successful samples.
C12_SampleSizeTable ==
  apc \in {"recommended", "ranked", "done"} =>
    /\ Len(sampleSizes) = 6
    /\ \A d \in 1..Len(sampleSizes) :
         /\ sampleSizes[d].diff = <<25, 50, 75, 100, 150, 200>>[d]
         /\ sampleSizes[d].n =
              calculateRequiredSampleSize(calculateStats(PooledMeasured).std,
                                          JsInt(sampleSizes[d].diff))

\* The facilitator whose thirty values of the batch have the mean of ms
\* milliseconds.
GroupWithMean(ms) ==
  CHOOSE f \in BatchFacilitators :
    Sum([i \in 1..30 |-> batch[CHOOSE k \in RowsOf(f) :
                                  Cardinality({j \in RowsOf(f) : j <= k}) = i].facilitationMs])
      = Ms(30 * ms)

\* The comparison printed for the facilitators f and g, in either order.
ComparisonOf(f, g) ==
  comparisons[CHOOSE i \in 1..Len(comparisons) :
                {comparisons[i].f1, comparisons[i].f2} = {f, g}]

Decisive(c) == c.significant /\ JLt(c.pValue, Num(1))

\* C13 as stated: for three groups of 30 values with means 661, 1774 and 2131
\* and standard deviations 24, 243 and 110, the 661 group is ranked first, its
\* comparisons with the two others are significant with pValue < 0.0001, and the
\* comparison of the 1774 group with the 2131 group is not significant.
C13_ScenarioAsStated ==
  apc = "done" /\ Len(batch) = 90 =>
    /\ rankings[1].facilitator = GroupWithMean(661)
    /\ Decisive(ComparisonOf(GroupWithMean(661), GroupWithMean(1774)))
    /\ Decisive(ComparisonOf(GroupWithMean(661), GroupWithMean(2131)))
    /\ ~ComparisonOf(GroupWithMean(1774), GroupWithMean(2131)).significant

\* C13 amended: for these groups the 661 group is ranked first, then the 1774
\* group, then the 2131 group, and all three comparisons are significant with
\* pValue < 0.0001, the one of the 1774 group with the 2131 group included.
C13_ScenarioAllSignificant ==
  apc = "done" /\ Len(batch) = 90 =>
    /\ rankings[1].facilitator = GroupWithMean(661)
    /\ rankings[2].facilitator = GroupWithMean(1774)
    /\ rankings[3].facilitator = GroupWithMean(2131)
    /\ Len(comparisons) = 3
    /\ Decisive(ComparisonOf(GroupWithMean(661), GroupWithMean(1774)))
    /\ Decisive(ComparisonOf(GroupWithMean(661), GroupWithMean(2131)))
    /\ Decisive(ComparisonOf(GroupWithMean(1774), GroupWithMean(2131)))
    /\ ComparisonOf(GroupWithMean(1774), GroupWithMean(2131)).faster = GroupWithMean(1774)

\* A finished report on the ninety records in which the 661 group is the last
\* facilitator of the file and the 1774 group was compared with the 2131 group.
C13_Witness ==
  /\ apc = "done"
  /\ Len(batch) = 90
  /\ facilitators[3] = GroupWithMean(661)
  /\ \E i \in 1..Len(comparisons) :
       {comparisons[i].f1, comparisons[i].f2} = {GroupWithMean(1774), GroupWithMean(2131)}

\* C14: calculateStats on the empty sequence returns, and every field of the
\* summary is 0; every call returns a summary.
C14_EmptyAllZero ==
  fn = "calculateStats" =>
    /\ fpc \in {"called", "returned"}
    /\ fpc = "returned" => DOMAIN ret = DOMAIN EmptyStats
    /\ fpc = "returned" /\ args[1] = <<>> =>
         /\ ret.n = 0
         /\ \A field \in DOMAIN ret \ {"n"} : ret[field] = Num(0)

C14_Witness ==
  /\ fn = "calculateStats"
  /\ fpc = "returned"
  /\ args[1] = <<>>

\* C15: every statistics calculator of the repository returns, for every input
\* (the empty, the one-element and the all-zero arrays included), a standard
\* deviation and a coefficient of variation that are finite and not negative.
C15_StdCvFiniteNonNegative ==
  fn \in StatsCalculators /\ fpc = "returned" =>
    /\ IsFinite(ret.std)
    /\ IsFinite(ret.cv)
    /\ ~JLt(ret.std, Num(0))
    /\ ~JLt(ret.cv, Num(0))

\* C16: for every non-empty array of numbers, the summary calculateStats
\* returns has min <= median <= max.
C16_MedianBetweenMinMax ==
  fn = "calculateStats" /\ fpc = "returned" /\ args[1] # <<>> =>
    /\ IsFinite(ret.min) /\ IsFinite(ret.median) /\ IsFinite(ret.max)
    /\ ~JGt(ret.min, ret.median)
    /\ ~JGt(ret.median, ret.max)

\* A call on an array that is not in ascending order and whose median lies
\* strictly between its least and its greatest element.
C16_Witness ==
  /\ fn = "calculateStats"
  /\ fpc = "returned"
  /\ \E i \in 1..(Len(args[1]) - 1) : JGt(args[1][i], args[1][i + 1])
  /\ JLt(ret.min, ret.median)
  /\ JLt(ret.median, ret.max)

\* C17: for a one-element array [x], calculateStats returns n = 1, mean = x,
\* std = 0, median = x and min = max = x.
C17_Singleton ==
  fn = "calculateStats" /\ fpc = "returned" /\ Len(args[1]) = 1 =>
    /\ ret.n = 1
    /\ ret.mean = args[1][1]
    /\ ret.std = Num(0)
    /\ ret.median = args[1][1]
    /\ ret.min = args[1][1]
    /\ ret.max = args[1][1]

C17_Witness ==
  /\ fn = "calculateStats"
  /\ fpc = "returned"
  /\ Len(args[1]) = 1
  /\ JGt(args[1][1], Num(0))

\* The k-th element of the values in ascending numerical order: fewer than k
\* values lie below it, and at least k values do not lie above it.
KthSmallest(values, k) ==
  CHOOSE x \in Range(values) :
    /\ Cardinality({j \in 1..Len(values) : JLt(values[j], x)}) < k
    /\ Cardinality({j \in 1..Len(values) : ~JGt(values[j], x)}) >= k

\* C18: the median calculateStats returns (the analysis script's and the main
\* drivers') is the central element of the values in ascending numerical order
\* when n is odd, and the average of the two central elements when n is even.
C18_Median ==
  fn \in {"calculateStats", "calculateStatsMain"} /\ fpc = "returned" /\ args[1] # <<>> =>
    LET n == Len(args[1])
    IN IF n % 2 = 1
         THEN ret.median = KthSmallest(args[1], (n + 1) \div 2)
         ELSE ret.median = JDiv(JAdd(KthSmallest(args[1], n \div 2),
                                     KthSmallest(args[1], (n \div 2) + 1)), JsInt(2))

\* A call of the main drivers' copy on an array of even length, not in
\* ascending order, whose two central elements differ.
C18_Witness ==
  /\ fn = "calculateStatsMain"
  /\ fpc = "returned"
  /\ Len(args[1]) = 4
  /\ JGt(args[1][1], args[1][4])
  /\ KthSmallest(args[1], 2) # KthSmallest(args[1], 3)

\* C19: for a non-empty array of length n, q1 is the element at the zero-based
\* index floor(n * 0.25) of the values in ascending order, q3 the one at index
\* floor(n * 0.75), and iqr = q3 - q1: no value is interpolated.
C19_Quartiles ==
  fn = "calculateStats" /\ fpc = "returned" /\ args[1] # <<>> =>
    LET n == Len(args[1])
    IN /\ ret.q1 = KthSmallest(args[1], (n \div 4) + 1)
       /\ ret.q3 = KthSmallest(args[1], ((3 * n) \div 4) + 1)
       /\ ret.iqr = JSub(ret.q3, ret.q1)
       /\ ret.q1 \in Range(args[1])
       /\ ret.q3 \in Range(args[1])

\* A call on four values, not in ascending order, whose quartiles differ.
C19_Witness ==
  /\ fn = "calculateStats"
  /\ fpc = "returned"
  /\ Len(args[1]) = 4
  /\ JGt(args[1][1], args[1][2])
  /\ JGt(ret.iqr, Num(0))

\* The array values in the order p of its indices.
Permuted(values, p) == [i \in 1..Len(values) |-> values[p[i]]]

\* C20: calculateStats returns the same summary for every permutation of its
\* argument: here the mean, the standard deviation and the coefficient of
\* variation, which lines 64-66 and 78 compute from the array as it was passed.
C20_SameForEveryOrder ==
  fn = "calculateStats" /\ fpc = "returned" =>
    \A p \in Permutations(1..Len(args[1])) :
      calculateStatsRounded(Permuted(args[1], p)) = ret

\* All values of the group are equal: its variance is zero.
Constant(group) == \A i, j \in 1..Len(group) : group[i] = group[j]

\* C21: for two groups of two values or more, not both of zero variance,
\* welchTTest(a, b).t = -welchTTest(b, a).t, and the pValue and the degrees of
\* freedom are the same for both orders.
C21_Antisymmetric ==
  /\ fn = "welchTTest" /\ fpc = "returned"
  /\ Len(args[1]) >= 2 /\ Len(args[2]) >= 2
  /\ ~(Constant(args[1]) /\ Constant(args[2]))
  => /\ IsFinite(ret.t) /\ IsFinite(ret.df) /\ IsFinite(ret.pValue)
     /\ ret.t = JNeg(welchTTest(args[2], args[1]).t)
     /\ ret.pValue = welchTTest(args[2], args[1]).pValue
     /\ ret.df = welchTTest(args[2], args[1]).df

\* A returned test of two groups of different sizes and different means, one
\* of them of zero variance.
C21_Witness ==
  /\ fn = "welchTTest" /\ fpc = "returned"
  /\ Len(args[1]) = 2 /\ Len(args[2]) = 3
  /\ Constant(args[1]) /\ ~Constant(args[2])
  /\ JLt(ret.t, Num(0))

\* The least integer that is not below a / b, for a >= 0 and b > 0.
CeilQuotient(a, b) == (a + b - 1) \div b

\* The whole number a JavaScript number holds.
Whole(x) == x.v \div Scale

\* A returned call of a planner with a standard deviation that is not negative
\* and a positive difference.
PlannerReturned ==
  /\ fn \in {"calculateRequiredSampleSize", "calculateRequiredSampleSizePilot"}
  /\ fpc = "returned"
  /\ ~JLt(args[1], Num(0))
  /\ JGt(args[2], Num(0))

\* C22: calculateRequiredSampleSize(std, d) is the least integer that is not
\* below 15.68 * std^2 / d^2, for every std >= 0 and d > 0, and the copy of the
\* pilot drivers returns the same value as the copy of the analysis script.
C22_Formula ==
  PlannerReturned =>
    /\ ret = JsInt(CeilQuotient(1568 * Whole(args[1]) * Whole(args[1]),
                                100 * Whole(args[2]) * Whole(args[2])))
    /\ ret = calculateRequiredSampleSize(args[1], args[2])
    /\ ret = calculateRequiredSampleSizePilot(args[1], args[2])

\* A returned call of the pilot copy whose quotient is not a whole number.
C22_Witness ==
  /\ PlannerReturned
  /\ fn = "calculateRequiredSampleSizePilot"
  /\ (1568 * Whole(args[1]) * Whole(args[1])) % (100 * Whole(args[2]) * Whole(args[2])) # 0
  /\ JGt(ret, JsInt(1))

\* C23: for a fixed positive difference calculateRequiredSampleSize does not
\* decrease when the standard deviation grows, and for a fixed standard
\* deviation that is not negative it does not grow when the difference grows.
C23_Monotone ==
  PlannerReturned /\ fn = "calculateRequiredSampleSize" =>
    /\ \A s \in 0..Whole(args[1]) :
         ~JGt(calculateRequiredSampleSize(JsInt(s), args[2]), ret)
    /\ \A d \in 1..Whole(args[2]) :
         ~JLt(calculateRequiredSampleSize(args[1], JsInt(d)), ret)

\* A returned call whose result is strictly above the one for a smaller
\* standard deviation and strictly below the one for a smaller difference.
C23_Witness ==
  /\ PlannerReturned /\ fn = "calculateRequiredSampleSize"
  /\ \E s \in 0..Whole(args[1]) : JLt(calculateRequiredSampleSize(JsInt(s), args[2]), ret)
  /\ \E d \in 1..Whole(args[2]) : JGt(calculateRequiredSampleSize(args[1], JsInt(d)), ret)

\* C24: calculateRequiredSampleSize(0, d) = 0 for every positive d, d = 50
\* among them.
C24_ZeroStdZeroSamples ==
  PlannerReturned /\ fn = "calculateRequiredSampleSize" /\ args[1] = JsInt(0) =>
    ret = JsInt(0)

C24_Witness ==
  /\ PlannerReturned /\ fn = "calculateRequiredSampleSize"
  /\ args = <<JsInt(0), JsInt(50)>>

\* C25: no decision of the report is derived from NaN: every comparison of two
\* groups of two values or more, two groups of zero variance included, carries
\* a t-statistic and a p-value that are numbers (welchTTest raises nothing, so
\* a comparison that was printed is one that welchTTest returned).
C25_NoDecisionFromNaN ==
  \A i \in 1..Len(comparisons) :
    /\ Len(facilitatorStats[comparisons[i].f1].data) >= 2
    /\ Len(facilitatorStats[comparisons[i].f2].data) >= 2
    => /\ comparisons[i].t.k # "nan"
       /\ comparisons[i].pValue.k # "nan"

\* The successful records of the parsed file.
Successes == SelectSeq(data, LAMBDA r : r.success)

\* The place of the first successful record of facilitator f.
FirstOf(f) ==
  CHOOSE i \in 1..Len(Successes) :
    /\ Successes[i].facilitator = f
    /\ \A j \in 1..(i - 1) : Successes[j].facilitator # f

\* The facilitation times of the successful records of facilitator f.
TimesOf(f) ==
  LET own == SelectSeq(Successes, LAMBDA r : r.facilitator = f)
  IN [i \in 1..Len(own) |-> own[i].facilitationMs]

\* C26: the report groups the successful samples by facilitator, the groups in
\* the order of first appearance and every successful sample in exactly one
\* group, and it holds exactly one comparison for every unordered pair of
\* distinct groups: k * (k - 1) / 2 comparisons for k groups, none of a group
\* with itself, none a second time in the other order.
C26_GroupsAndPairs ==
  apc \in {"compared", "recommended", "ranked", "done"} =>
    /\ Range(facilitators) = {Successes[i].facilitator : i \in 1..Len(Successes)}
    /\ \A i, j \in 1..Len(facilitators) :
         i < j => FirstOf(facilitators[i]) < FirstOf(facilitators[j])
    /\ DOMAIN facilitatorStats = Range(facilitators)
    /\ \A f \in Range(facilitators) : facilitatorStats[f].data = TimesOf(f)
    /\ 2 * Len(comparisons) = Len(facilitators) * (Len(facilitators) - 1)
    /\ \A i \in 1..Len(comparisons) :
         /\ comparisons[i].f1 # comparisons[i].f2
         /\ {comparisons[i].f1, comparisons[i].f2} \subseteq Range(facilitators)
    /\ \A i, j \in 1..Len(comparisons) :
         {comparisons[i].f1, comparisons[i].f2} = {comparisons[j].f1, comparisons[j].f2} => i = j

\* A finished report on three groups, of which the first of the file is not the
\* first endpoint of the drivers.
C26_Witness ==
  /\ apc = "done"
  /\ Len(facilitators) = 3
  /\ Len(comparisons) = 3
  /\ facilitators[1] # FareSide

\* The lines of the output file behind the header line.
OutputRows == Tail(Split(Trim(outputFile), "\n"))

\* The number of requests a finished run has dispatched.
Dispatched == MaxSamples * Len(ENDPOINTS(driver))

\* C27: when a run of N rounds over E endpoints finishes, the output file holds
\* N * E data rows behind the header, one per dispatched request, and the
\* results list holds the N * E records in the order of the rows.
C27_OneRowPerRequest ==
  dpc = "done" =>
    /\ Len(results) = Dispatched
    /\ \A k \in 1..MaxSamples : \A e \in 1..Len(ENDPOINTS(driver)) :
         /\ results[(k - 1) * Len(ENDPOINTS(driver)) + e].sampleNum = JsInt(k)
         /\ results[(k - 1) * Len(ENDPOINTS(driver)) + e].facilitator
              = ENDPOINTS(driver)[e].facilitator
    /\ outputFile = CSV_HEADER \o WriteRows(results)
    /\ Len(OutputRows) = Dispatched

\* The endpoints whose request of the current round is in flight.
InFlight == {e \in 1..Len(promises) : promises[e].state = "pending"}

IsFailure(r) ==
  ~r.success /\ r.facilitationMs = Null /\ r.roundtripMs = Null

C30_QuartilesInOrder ==
  fn = "calculateStats" /\ fpc = "returned" /\ args[1] # <<>> =>
    LET n == Len(args[1])
    IN /\ (n \div 4) \in 0..(n - 1)
       /\ ((3 * n) \div 4) \in 0..(n - 1)
       /\ IsFinite(ret.q1) /\ IsFinite(ret.q3)
       /\ ~JGt(ret.min, ret.q1)
       /\ ~JGt(ret.q1, ret.median)
       /\ ~JGt(ret.median, ret.q3)
       /\ ~JGt(ret.q3, ret.max)
       /\ ~JLt(ret.iqr, Num(0))

\* A call on four values, not in ascending order, whose least value, first
\* quartile, median and third quartile all differ.
C30_Witness ==
  /\ fn = "calculateStats"
  /\ fpc = "returned"
  /\ Len(args[1]) = 4
  /\ JGt(args[1][1], args[1][4])
  /\ JLt(ret.min, ret.q1)
  /\ JLt(ret.q1, ret.median)
  /\ JLt(ret.median, ret.q3)
====
